---- MODULE Spec2Model ----
(***************************************************************************)
(* Model of src/verify_person/verify.py: the face-verification access      *)
(* point.  The SQLite file (tables employees and access_logs) is the       *)
(* persistent store; main() is a sequential process whose position is pc.  *)
(*                                                                         *)
(* Python values: None is the empty tuple <<>>, a present value v is the   *)
(* one-element tuple <<v>>.  Distances and thresholds are in hundredths    *)
(* (0.45 is 45).  A file path is the tuple of its components, the empty    *)
(* string being <<>>.  A dict is a function whose DOMAIN is its key set.   *)
(***************************************************************************)
EXTENDS Integers, Sequences, FiniteSets, TLC

VARIABLES
    tables,        \* store: names of the tables that exist in DB_FILE
    employees,     \* store: committed rows of table employees, in rowid order
    access_logs,   \* store: committed rows of table access_logs, in rowid order
    txn,           \* connection: rows inserted into access_logs, not yet committed
    conn,          \* "none" | "open" | "closed": the sqlite3 connection of main
    cap,           \* "none" | "open" | "failed" | "released": cv2.VideoCapture
    pc,            \* position of main()
    exc,           \* the exception that left main() uncaught, or "none"
    frames,        \* number of frames cap.read() has handed out, all runs
    logged,        \* Len(access_logs) when the current frame was handed out
    mapping,       \* argument of seed_employees
    USE_THRESHOLD_FROM_DF,   \* CONFIG flag, line 15
    df_list,       \* local of main: result of DeepFace.find, None if it raised
    top,           \* local of main: None or <<dict>> from safe_get_top_result
    person_name,   \* local of main
    distance,      \* local of main
    threshold,     \* local of main
    matched,       \* local of main: None before the decision, else <<BOOLEAN>>
    emp,           \* local of main: None or <<profile dict>>
    color,         \* local of main: "none" | "POSITIVE" | "NEGATIVE"
    call,          \* arguments and call site of the log_access call in progress
    overlay,       \* colour of the text drawn on the current frame, or "none"
    cue,           \* sound played for the current frame, "none" before
    shown,         \* TRUE once cv2.imshow displayed the current frame
    seeds,         \* number of seed_employees calls made (pure-function check)
    reg0,          \* employees before the first seed_employees call
    reg1           \* employees after the first seed_employees call

vars == <<tables, employees, access_logs, txn, conn, cap, pc, exc, frames, logged,
          mapping, USE_THRESHOLD_FROM_DF, df_list, top, person_name, distance,
          threshold, matched, emp, color, call, overlay, cue, shown,
          seeds, reg0, reg1>>

(***************************************************************************)
(* Bounds of the model.                                                    *)
(***************************************************************************)
MaxFrames == 2     \* frames the capture device hands out, over all runs
Step == 1          \* distances and thresholds are sampled Step below, at and
                   \* Step above FALLBACK_THRESHOLD
MaxClock == 1      \* datetime.now() reads a value in 0..MaxClock
MaxSeeds == 2      \* seed_employees calls in a row (SpecSeed)

(***************************************************************************)
(* CONFIG and module data.                                                 *)
(***************************************************************************)
FALLBACK_THRESHOLD == 45

person_data ==
    << [folder_name |-> "Nazarbek",
        info |-> [full_name |-> "Nazarbek Qobulov", class |-> "9-sinf"]],
       [folder_name |-> "Azizbek",
        info |-> [full_name |-> "Azizbek X.", class |-> "10-sinf"]] >>

None == <<>>
Some(v) == <<v>>
Val(x) == x[1]

\* dict.get(key, default)
Get(d, key, default) == IF key \in DOMAIN d THEN d[key] ELSE default

\* dict.get(key, None)
GetOrNone(d, key) == IF key \in DOMAIN d THEN Some(d[key]) ELSE None

Max(S) == CHOOSE m \in S : \A x \in S : x <= m

\* rowid SQLite gives the next row of an INTEGER PRIMARY KEY table
NextId(rows) == IF rows = <<>> THEN 1 ELSE Max({rows[i].id : i \in 1..Len(rows)}) + 1


(***************************************************************************)
(* The store: init_db, seed_employees, get_employee, log_access.           *)
(***************************************************************************)
\* Mutant of CreateIfNotExists: DROP TABLE and CREATE TABLE, an existing
\* table is emptied.
CreateAlways(name, rows) == <<>>

\* CREATE TABLE IF NOT EXISTS: the rows of a table that exists are kept,
\* a table that does not exist is created empty.
CreateIfNotExists(name, rows) == IF name \in tables THEN rows ELSE <<>>

\* Mutant of InsertOrIgnore: INSERT OR REPLACE, the row that holds the
\* folder_name is deleted and the new row is inserted under a new rowid.
InsertOrReplace(rows, folder_name, full_name, class) ==
    LET kept == SelectSeq(rows, LAMBDA r : r.folder_name # folder_name)
    IN Append(kept, [id |-> NextId(rows), folder_name |-> folder_name,
                     full_name |-> full_name, class |-> class])

\* INSERT OR IGNORE INTO employees: folder_name is UNIQUE, so a row whose
\* folder_name is already in the table is ignored.
InsertOrIgnore(rows, folder_name, full_name, class) ==
    IF \E i \in 1..Len(rows) : rows[i].folder_name = folder_name
    THEN rows
    ELSE Append(rows, [id |-> NextId(rows), folder_name |-> folder_name,
                       full_name |-> full_name, class |-> class])

\* seed_employees(conn, m): one INSERT OR IGNORE per item of m, in dict order,
\* then commit.
RECURSIVE seed_employees(_, _)
seed_employees(rows, m) ==
    IF m = <<>> THEN rows
    ELSE LET folder_name == Head(m).folder_name
             info == Head(m).info
         IN seed_employees(
                InsertOrIgnore(rows, folder_name,
                               Get(info, "full_name", folder_name),
                               Get(info, "class", "")),
                Tail(m))

\* get_employee(conn, folder_name): the row selected by folder_name = ?, as
\* a dict, or None.  folder_name = NULL selects nothing.
get_employee(rows, folder_name) ==
    IF folder_name # None
       /\ \E i \in 1..Len(rows) : rows[i].folder_name = Val(folder_name)
    THEN LET i == CHOOSE j \in 1..Len(rows) : rows[j].folder_name = Val(folder_name)
         IN Some([folder_name |-> Some(rows[i].folder_name),
                  full_name |-> Some(rows[i].full_name),
                  class |-> Some(rows[i].class)])
    ELSE None

\* Mutant of LogRow: the distance is kept only for a match.
LogRowDropsDistance(visible, folder_name, full_name, ts, m, dist) ==
    [id |-> NextId(visible), folder_name |-> folder_name, full_name |-> full_name,
     timestamp |-> ts, matched |-> IF m THEN 1 ELSE 0,
     distance |-> IF m /\ dist # None THEN Some(Val(dist)) ELSE None]

\* The row log_access inserts: matched is stored as 1 or 0, distance as
\* float(distance) or NULL, the id is the next rowid of the table as the
\* connection sees it.
LogRow(visible, folder_name, full_name, ts, m, dist) ==
    [id |-> NextId(visible), folder_name |-> folder_name, full_name |-> full_name,
     timestamp |-> ts, matched |-> IF m THEN 1 ELSE 0,
     distance |-> IF dist # None THEN Some(Val(dist)) ELSE None]

(***************************************************************************)
(* Pure helpers of main.                                                   *)
(***************************************************************************)
\* os.path.dirname and os.path.basename on a path given by its components
dirname(p) == IF Len(p) = 0 THEN <<>> ELSE SubSeq(p, 1, Len(p) - 1)
basename(p) == IF Len(p) = 0 THEN "" ELSE p[Len(p)]

IsDataFrame(g) == g.kind = "DataFrame"

\* Mutant of safe_get_top_result: the first row of the first group that is a
\* table with rows, wherever it is in the list.
safe_get_any_result(dl) ==
    IF dl = None THEN None
    ELSE LET full == SelectSeq(Val(dl), LAMBDA g : g.kind = "DataFrame" /\ g.rows # <<>>)
         IN IF full = <<>> THEN None ELSE Some(full[1].rows[1])

\* safe_get_top_result(df_list): the first row of the first group, as a dict
safe_get_top_result(dl) ==
    IF dl = None \/ Len(Val(dl)) = 0 THEN None
    ELSE LET df == Val(dl)[1]
         IN IF IsDataFrame(df) /\ Len(df.rows) > 0 THEN Some(df.rows[1]) ELSE None

\* line 114-115
PersonName(t) ==
    LET identity_path == Get(t, "identity", <<>>)
    IN IF identity_path # <<>> THEN Some(basename(dirname(identity_path))) ELSE None

\* float(distance) raises TypeError on None (line 120)
DecideRaises(flag, dist, thr) == flag /\ thr # None /\ dist = None

\* Mutant of Decide: strict comparisons.
DecideStrict(flag, dist, thr) ==
    IF flag /\ thr # None
    THEN Val(dist) < Val(thr)
    ELSE IF dist # None THEN Val(dist) < FALLBACK_THRESHOLD ELSE FALSE

\* lines 119-122, when no TypeError is raised
Decide(flag, dist, thr) ==
    IF flag /\ thr # None
    THEN Val(dist) <= Val(thr)
    ELSE IF dist # None THEN Val(dist) <= FALLBACK_THRESHOLD ELSE FALSE

\* line 125: get_employee(...) or {...}
ResolveEmp(rows, name) ==
    LET row == get_employee(rows, name)
    IN IF row # None THEN Val(row)
       ELSE [folder_name |-> name, full_name |-> name, class |-> Some("")]

(***************************************************************************)
(* What the collaborators can hand to main: the matcher's result lists,    *)
(* the clock's readings.                                                   *)
(***************************************************************************)
Distances == {FALLBACK_THRESHOLD - Step, FALLBACK_THRESHOLD, FALLBACK_THRESHOLD + Step}

KnownPath == <<"known_faces", "Nazarbek", "1.jpg">>
LoosePath == <<"known_faces", "2.jpg">>
IdentityPaths == {<<>>, KnownPath, LoosePath}

\* rows of a result table: any of the keys identity, distance, threshold may
\* be missing
Candidates ==
    [identity : IdentityPaths, distance : Distances, threshold : Distances]
    \cup [identity : IdentityPaths, distance : Distances]
    \cup [identity : IdentityPaths, threshold : Distances]
    \cup [distance : Distances, threshold : Distances]
    \cup [identity : IdentityPaths]
    \cup [distance : Distances]
    \cup [threshold : Distances]
    \cup {<<>>}

DataFrame(rows) == [kind |-> "DataFrame", rows |-> rows]
NotDataFrame == [kind |-> "other"]
OtherRow == [identity |-> KnownPath, distance |-> FALLBACK_THRESHOLD,
             threshold |-> FALLBACK_THRESHOLD]

\* lists DeepFace.find can return
DfLists ==
    {<<>>, <<DataFrame(<<>>)>>, <<NotDataFrame>>,
     <<DataFrame(<<>>), DataFrame(<<OtherRow>>)>>,
     <<NotDataFrame, DataFrame(<<OtherRow>>)>>,
     <<DataFrame(<<[distance |-> FALLBACK_THRESHOLD + Step], OtherRow>>)>>}
    \cup {<<DataFrame(<<c>>)>> : c \in Candidates}

Clock == 0..MaxClock

NoLocals ==
    /\ df_list = None /\ top = None /\ person_name = None /\ distance = None
    /\ threshold = None /\ matched = None /\ emp = None /\ color = "none"
    /\ call = None /\ overlay = "none" /\ cue = "none" /\ shown = FALSE

ResetLocals ==
    /\ df_list' = None /\ top' = None /\ person_name' = None /\ distance' = None
    /\ threshold' = None /\ matched' = None /\ emp' = None /\ color' = "none"
    /\ call' = None /\ overlay' = "none" /\ cue' = "none" /\ shown' = FALSE

store == <<tables, employees, access_logs>>
config == <<mapping, USE_THRESHOLD_FROM_DF>>
history == <<logged, seeds, reg0, reg1>>
locals == <<df_list, top, person_name, distance, threshold, matched, emp, color,
            call, overlay, cue, shown>>

Init ==
    /\ tables = {} /\ employees = <<>> /\ access_logs = <<>> /\ txn = <<>>
    /\ conn = "none" /\ cap = "none" /\ pc = "init_db" /\ exc = "none"
    /\ frames = 0 /\ logged = 0
    /\ mapping = person_data
    /\ USE_THRESHOLD_FROM_DF = TRUE
    /\ NoLocals
    /\ seeds = 0 /\ reg0 = <<>> /\ reg1 = <<>>

(***************************************************************************)
(* main(), lines 84-161.                                                   *)
(***************************************************************************)
\* line 85: conn = init_db(DB_FILE)
InitDb ==
    /\ pc = "init_db"
    /\ employees' = CreateIfNotExists("employees", employees)
    /\ access_logs' = CreateIfNotExists("access_logs", access_logs)
    /\ tables' = tables \cup {"employees", "access_logs"}
    /\ conn' = "open"
    /\ pc' = "seed"
    /\ UNCHANGED <<txn, cap, exc, frames, config, locals, history>>

\* line 86: seed_employees(conn, person_data)
SeedEmployees ==
    /\ pc = "seed"
    /\ employees' = seed_employees(employees, mapping)
    /\ pc' = "open_cap"
    /\ UNCHANGED <<tables, access_logs, txn, conn, cap, exc, frames, config,
                   locals, history>>

\* lines 88-93: the camera opens
OpenCapture ==
    /\ pc = "open_cap"
    /\ cap' = "open"
    /\ pc' = "read"
    /\ UNCHANGED <<store, txn, conn, exc, frames, config, locals, history>>

\* lines 88-91: the camera does not open, main returns
OpenCaptureFails ==
    /\ pc = "open_cap"
    /\ cap' = "failed"
    /\ pc' = "exit"
    /\ UNCHANGED <<store, txn, conn, exc, frames, config, locals, history>>

\* line 96: cap.read() hands out a frame.  The locals of the previous
\* iteration are dead here (each is assigned before it is read again).
ReadFrame ==
    /\ pc = "read"
    /\ frames < MaxFrames
    /\ frames' = frames + 1
    /\ logged' = Len(access_logs)
    /\ ResetLocals
    /\ pc' = "find"
    /\ UNCHANGED <<store, txn, conn, cap, exc, config, seeds, reg0, reg1>>

\* Mutant of ReadFails: continue instead of break.
ReadFailsContinues ==
    /\ pc = "read"
    /\ pc' = "find"
    /\ UNCHANGED <<store, txn, conn, cap, exc, frames, config, locals, history>>

\* lines 96-98: cap.read() hands out nothing, break
ReadFails ==
    /\ pc = "read"
    /\ pc' = "teardown"
    /\ UNCHANGED <<store, txn, conn, cap, exc, frames, config, locals, history>>

\* lines 100-107: DeepFace.find returns a list
Find ==
    /\ pc = "find"
    /\ \E l \in DfLists : df_list' = Some(l)
    /\ pc' = "top"
    /\ UNCHANGED <<store, txn, conn, cap, exc, frames, config, history,
                   top, person_name, distance, threshold, matched, emp, color,
                   call, overlay, cue, shown>>

\* Mutant of FindRaises: no except clause around DeepFace.find.
FindRaisesUncaught ==
    /\ pc = "find"
    /\ exc' = "Exception"
    /\ pc' = "crash"
    /\ UNCHANGED <<store, txn, conn, cap, frames, config, history, locals>>

\* lines 108-110: DeepFace.find raises, df_list = None
FindRaises ==
    /\ pc = "find"
    /\ df_list' = None
    /\ pc' = "top"
    /\ UNCHANGED <<store, txn, conn, cap, exc, frames, config, history,
                   top, person_name, distance, threshold, matched, emp, color,
                   call, overlay, cue, shown>>

\* lines 112-117
TopResult ==
    /\ pc = "top"
    /\ top' = safe_get_top_result(df_list)
    /\ IF top' # None
       THEN /\ person_name' = PersonName(Val(top'))
            /\ distance' = GetOrNone(Val(top'), "distance")
            /\ threshold' = GetOrNone(Val(top'), "threshold")
            /\ pc' = "decide"
       ELSE /\ UNCHANGED <<person_name, distance, threshold>>
            /\ pc' = "no_candidate"
    /\ UNCHANGED <<store, txn, conn, cap, exc, frames, config, history,
                   df_list, matched, emp, color, call, overlay, cue, shown>>

\* lines 119-122: the decision
DecideMatch ==
    /\ pc = "decide"
    /\ ~DecideRaises(USE_THRESHOLD_FROM_DF, distance, threshold)
    /\ matched' = Some(Decide(USE_THRESHOLD_FROM_DF, distance, threshold))
    /\ pc' = IF Val(matched') THEN "resolve" ELSE "unmatched"
    /\ UNCHANGED <<store, txn, conn, cap, exc, frames, config, history,
                   df_list, top, person_name, distance, threshold, emp, color,
                   call, overlay, cue, shown>>

\* line 120: float(None) raises TypeError, which nothing in main catches
DecideTypeError ==
    /\ pc = "decide"
    /\ DecideRaises(USE_THRESHOLD_FROM_DF, distance, threshold)
    /\ exc' = "TypeError"
    /\ pc' = "crash"
    /\ UNCHANGED <<store, txn, conn, cap, frames, config, history, locals>>

\* Mutant of Resolve: a key the registry does not hold is enrolled.
ResolveEnrolls ==
    /\ pc = "resolve"
    /\ emp' = Some(ResolveEmp(employees, person_name))
    /\ employees' = IF get_employee(employees, person_name) = None
                       /\ person_name # None
                    THEN InsertOrIgnore(employees, Val(person_name),
                                        Val(person_name), "")
                    ELSE employees
    /\ color' = "POSITIVE"
    /\ call' = Some([folder_name |-> person_name,
                     full_name |-> Val(emp').full_name,
                     matched |-> TRUE, distance |-> distance, site |-> "matched"])
    /\ pc' = "log_insert"
    /\ UNCHANGED <<tables, access_logs, txn, conn, cap, exc, frames, config,
                   history, df_list, top, person_name, distance, threshold,
                   matched, overlay, cue, shown>>

\* lines 124-129: the profile is resolved, log_access is called
Resolve ==
    /\ pc = "resolve"
    /\ emp' = Some(ResolveEmp(employees, person_name))
    /\ color' = "POSITIVE"
    /\ call' = Some([folder_name |-> person_name,
                     full_name |-> Val(emp').full_name,
                     matched |-> TRUE, distance |-> distance, site |-> "matched"])
    /\ pc' = "log_insert"
    /\ UNCHANGED <<store, txn, conn, cap, exc, frames, config, history,
                   df_list, top, person_name, distance, threshold, matched,
                   overlay, cue, shown>>

\* lines 131-135: log_access is called for an unmatched candidate
Unmatched ==
    /\ pc = "unmatched"
    /\ color' = "NEGATIVE"
    /\ call' = Some([folder_name |-> None, full_name |-> Some("Unknown"),
                     matched |-> FALSE, distance |-> distance, site |-> "unmatched"])
    /\ pc' = "log_insert"
    /\ UNCHANGED <<store, txn, conn, cap, exc, frames, config, history,
                   df_list, top, person_name, distance, threshold, matched, emp,
                   overlay, cue, shown>>

\* lines 150-152: no candidate; the text is put on the frame, log_access is
\* called
NoCandidate ==
    /\ pc = "no_candidate"
    /\ overlay' = "NEGATIVE"
    /\ call' = Some([folder_name |-> None, full_name |-> Some("Unknown"),
                     matched |-> FALSE, distance |-> None, site |-> "no_candidate"])
    /\ pc' = "log_insert"
    /\ UNCHANGED <<store, txn, conn, cap, exc, frames, config, history,
                   df_list, top, person_name, distance, threshold, matched, emp,
                   color, cue, shown>>

\* log_access, lines 67-72: the clock is read, the row is inserted in the
\* connection's transaction
LogInsert ==
    /\ pc = "log_insert"
    /\ \E ts \in Clock :
          txn' = Append(txn, LogRow(access_logs \o txn, Val(call).folder_name,
                                    Val(call).full_name, ts, Val(call).matched,
                                    Val(call).distance))
    /\ pc' = "log_commit"
    /\ UNCHANGED <<store, conn, cap, exc, frames, config, history, locals>>

\* log_access, line 69: the INSERT raises (disk full, database locked);
\* nothing in log_access or main catches it
LogInsertRaises ==
    /\ pc = "log_insert"
    /\ exc' = "sqlite3.Error"
    /\ pc' = "crash"
    /\ UNCHANGED <<store, txn, conn, cap, frames, config, history, locals>>

\* log_access, line 73: conn.commit() makes the transaction's rows durable
LogCommit ==
    /\ pc = "log_commit"
    /\ access_logs' = access_logs \o txn
    /\ txn' = <<>>
    /\ pc' = "playsound"
    /\ UNCHANGED <<tables, employees, conn, cap, exc, frames, config,
                   history, locals>>

\* Mutant of LogCommitRaises: the exception is swallowed and main goes on
\* with the row still in the open transaction.
LogCommitRaisesSwallowed ==
    /\ pc = "log_commit"
    /\ pc' = "playsound"
    /\ UNCHANGED <<store, txn, conn, cap, exc, frames, config, history, locals>>

\* log_access, line 73: conn.commit() raises; the row stays uncommitted
LogCommitRaises ==
    /\ pc = "log_commit"
    /\ exc' = "sqlite3.Error"
    /\ pc' = "crash"
    /\ UNCHANGED <<store, txn, conn, cap, frames, config, history, locals>>

\* Mutant of PlaySound: error.mp3 in every branch.
PlaySoundAlwaysError ==
    /\ pc = "playsound"
    /\ cue' = "FAILURE"
    /\ pc' = IF Val(call).site = "no_candidate" THEN "imshow" ELSE "draw"
    /\ UNCHANGED <<store, txn, conn, cap, exc, frames, config, history,
                   df_list, top, person_name, distance, threshold, matched, emp,
                   color, call, overlay, shown>>

\* lines 130, 136, 153: playsound after log_access returned
PlaySound ==
    /\ pc = "playsound"
    /\ cue' = IF Val(call).site = "matched" THEN "SUCCESS" ELSE "FAILURE"
    /\ pc' = IF Val(call).site = "no_candidate" THEN "imshow" ELSE "draw"
    /\ UNCHANGED <<store, txn, conn, cap, exc, frames, config, history,
                   df_list, top, person_name, distance, threshold, matched, emp,
                   color, call, overlay, shown>>

\* lines 138-148: rectangle and texts in the branch's colour
Draw ==
    /\ pc = "draw"
    /\ overlay' = color
    /\ pc' = "imshow"
    /\ UNCHANGED <<store, txn, conn, cap, exc, frames, config, history,
                   df_list, top, person_name, distance, threshold, matched, emp,
                   color, call, cue, shown>>

\* lines 155-156: the frame is shown, no 'q' was pressed
ShowFrame ==
    /\ pc = "imshow"
    /\ shown' = TRUE
    /\ pc' = "read"
    /\ UNCHANGED <<store, txn, conn, cap, exc, frames, config, history,
                   df_list, top, person_name, distance, threshold, matched, emp,
                   color, call, overlay, cue>>

\* lines 155-157: the frame is shown, 'q' was pressed, break
ShowFrameQuit ==
    /\ pc = "imshow"
    /\ shown' = TRUE
    /\ pc' = "teardown"
    /\ UNCHANGED <<store, txn, conn, cap, exc, frames, config, history,
                   df_list, top, person_name, distance, threshold, matched, emp,
                   color, call, overlay, cue>>

\* lines 159-161
Teardown ==
    /\ pc = "teardown"
    /\ cap' = "released"
    /\ conn' = "closed"
    /\ pc' = "exit"
    /\ UNCHANGED <<store, txn, exc, frames, config, history, locals>>

\* The program is started again on the same DB_FILE (line 163).  What the
\* previous process left uncommitted is rolled back.
Restart ==
    /\ pc \in {"exit", "crash"}
    /\ txn' = <<>>
    /\ conn' = "none" /\ cap' = "none" /\ exc' = "none"
    /\ ResetLocals
    /\ pc' = "init_db"
    /\ UNCHANGED <<store, frames, config, history>>

Next ==
    \/ InitDb \/ SeedEmployees \/ OpenCapture \/ OpenCaptureFails
    \/ ReadFrame \/ ReadFails \/ Find \/ FindRaises \/ TopResult
    \/ DecideMatch \/ DecideTypeError \/ Resolve \/ Unmatched \/ NoCandidate
    \/ LogInsert \/ LogInsertRaises \/ LogCommit \/ LogCommitRaises
    \/ PlaySound \/ Draw \/ ShowFrame \/ ShowFrameQuit \/ Teardown \/ Restart

Spec == Init /\ [][Next]_vars

(***************************************************************************)
(* The decision of lines 112-122 as a function of the matcher's result and *)
(* of the CONFIG flag: every result list under either setting of           *)
(* USE_THRESHOLD_FROM_DF.                                                  *)
(***************************************************************************)
InitDecide ==
    /\ tables = {"employees", "access_logs"}
    /\ employees = seed_employees(<<>>, person_data)
    /\ access_logs = <<>> /\ txn = <<>>
    /\ conn = "open" /\ cap = "open" /\ pc = "top" /\ exc = "none"
    /\ frames = 1 /\ logged = 0
    /\ mapping = person_data
    /\ USE_THRESHOLD_FROM_DF \in BOOLEAN
    /\ df_list \in {None} \cup {Some(l) : l \in DfLists}
    /\ top = None /\ person_name = None /\ distance = None
    /\ threshold = None /\ matched = None /\ emp = None /\ color = "none"
    /\ call = None /\ overlay = "none" /\ cue = "none" /\ shown = FALSE
    /\ seeds = 0 /\ reg0 = <<>> /\ reg1 = <<>>

NextDecide == TopResult \/ DecideMatch \/ DecideTypeError

SpecDecide == InitDecide /\ [][NextDecide]_vars

(***************************************************************************)
(* seed_employees as a function of the registry it finds and of the        *)
(* mapping it is given: every registry the schema allows (folder_name      *)
(* UNIQUE) over SeedKeys, every mapping over SeedKeys, seeded repeatedly.  *)
(***************************************************************************)
SeedKeys == {"Nazarbek", "Azizbek"}
SeedNames == {"Nazarbek Qobulov", "N. Q."}
SeedInfos == [full_name : SeedNames, class : {"9-sinf"}]
                 \cup [full_name : SeedNames] \cup [class : {"9-sinf"}] \cup {<<>>}

\* no two items of q have the same folder_name
DistinctKeys(q) == \A i, j \in 1..Len(q) : i # j => q[i].folder_name # q[j].folder_name

Registries ==
    {r \in UNION {[1..n -> [id : 1..Cardinality(SeedKeys), folder_name : SeedKeys,
                            full_name : SeedNames, class : {"9-sinf", ""}]]
                  : n \in 0..Cardinality(SeedKeys)} :
        DistinctKeys(r) /\ \A i \in 1..Len(r) : r[i].id = i}

Mappings ==
    {m \in UNION {[1..n -> [folder_name : SeedKeys, info : SeedInfos]]
                  : n \in 0..Cardinality(SeedKeys)} : DistinctKeys(m)}

InitSeed ==
    /\ tables = {"employees", "access_logs"}
    /\ employees \in Registries
    /\ access_logs = <<>> /\ txn = <<>>
    /\ conn = "open" /\ cap = "none" /\ pc = "seed" /\ exc = "none"
    /\ frames = 0 /\ logged = 0
    /\ mapping \in Mappings
    /\ USE_THRESHOLD_FROM_DF = TRUE
    /\ NoLocals
    /\ seeds = 0 /\ reg0 = employees /\ reg1 = <<>>

\* seed_employees(conn, mapping), called again on the store it left
SeedCall ==
    /\ pc = "seed"
    /\ seeds < MaxSeeds
    /\ employees' = seed_employees(employees, mapping)
    /\ seeds' = seeds + 1
    /\ reg1' = IF seeds = 0 THEN employees' ELSE reg1
    /\ UNCHANGED <<tables, access_logs, txn, conn, cap, pc, exc, frames, logged,
                   config, locals, reg0>>

NextSeed == SeedCall

SpecSeed == InitSeed /\ [][NextSeed]_vars

(***************************************************************************)
(* Properties.                                                             *)
(***************************************************************************)
IsPrefix(a, b) == Len(a) <= Len(b) /\ \A i \in 1..Len(a) : b[i] = a[i]

Last(q) == q[Len(q)]

\* main is not inside an iteration: before the loop, at the top of the loop,
\* after the loop, or ended
OutsideIteration ==
    pc \in {"init_db", "seed", "open_cap", "read", "teardown", "exit", "crash"}

Ended == pc \in {"exit", "crash"}

\* the entry written when there is nothing to report
UnknownEntry(row) ==
    /\ row.folder_name = None /\ row.full_name = Some("Unknown")
    /\ row.matched = 0 /\ row.distance = None

Registered(key) ==
    key # None /\ \E i \in 1..Len(employees) : employees[i].folder_name = Val(key)

\* C1: every iteration that obtained a frame appends exactly one ledger
\* entry, whatever the matcher returned: whenever main is not inside an
\* iteration the ledger holds one entry per frame handed out, and inside an
\* iteration the entry written carries the decision of that iteration.
C1_OneEntryPerFrame ==
    /\ OutsideIteration => Len(access_logs) = frames
    /\ (pc \in {"playsound", "draw", "imshow"} /\ matched # None) =>
           Last(access_logs).matched = (IF Val(matched) THEN 1 ELSE 0)

\* C2: for a candidate with a distance d, the decision is d <= t when the
\* flag is on and the candidate supplies a threshold t, and d <= the fallback
\* threshold otherwise; it is always taken (no exception), and it is
\* inclusive.
C2_ThresholdRule ==
    /\ (matched # None /\ distance # None) =>
           Val(matched) = (IF USE_THRESHOLD_FROM_DF /\ threshold # None
                           THEN Val(distance) <= Val(threshold)
                           ELSE Val(distance) <= FALLBACK_THRESHOLD)
    /\ pc = "crash" => distance = None

\* C2 witness: flag off, the candidate's own threshold is below its distance,
\* the distance equals the fallback threshold, and the decision is MATCHED.
C2_Witness ==
    /\ ~USE_THRESHOLD_FROM_DF
    /\ threshold = Some(FALLBACK_THRESHOLD - Step)
    /\ distance = Some(FALLBACK_THRESHOLD)
    /\ matched = Some(TRUE)

\* C3: a candidate without an identity key is decided UNMATCHED whatever its
\* distance and threshold, and no ledger entry with matched = 1 is written
\* for it.
C3_NoIdentityUnmatched ==
    /\ (top # None /\ person_name = None /\ matched # None) => matched = Some(FALSE)
    /\ \A i \in 1..Len(access_logs) :
           access_logs[i].matched = 1 => access_logs[i].folder_name # None

\* an iteration in which DeepFace.find raised, from the except clause on
C4_Raised ==
    /\ df_list = None
    /\ \/ pc \in {"top", "no_candidate", "decide", "resolve", "unmatched",
                  "log_insert", "log_commit", "playsound", "draw", "imshow",
                  "crash"}
       \/ shown

C5_WriteFailureRecoverable == ~(Ended /\ exc = "sqlite3.Error")

\* C6: the ledger is append-only: every step of the program, init_db on an
\* existing store included, leaves the committed entries as they are and at
\* most adds entries after them.
C6_AppendOnly == [][IsPrefix(access_logs, access_logs')]_vars

\* C6 witness: init_db has just run on a store whose ledger has entries.
C6_Witness == pc = "seed" /\ Len(access_logs) >= 1

\* C7: when main has ended with the connection opened, the connection is
\* closed.
C7_ConnectionReleased == (Ended /\ conn # "none") => conn = "closed"

\* C8: seeding never changes or removes a profile that exists, never makes
\* two profiles with one key, inserts every key that is absent, and seeding
\* again with the same mapping changes nothing.
C8_SeedIdempotent ==
    seeds >= 1 =>
        /\ IsPrefix(reg0, employees)
        /\ DistinctKeys(employees)
        /\ \A i \in 1..Len(mapping) :
               \E j \in 1..Len(employees) :
                   employees[j].folder_name = mapping[i].folder_name
        /\ seeds >= 2 => employees = reg1

\* C8 witness: seeded twice, the mapping names a key the registry held under
\* another display name and a key it did not hold.
C8_Witness ==
    /\ seeds = 2
    /\ Len(employees) > Len(reg0)
    /\ \E i \in 1..Len(reg0), j \in 1..Len(mapping) :
           /\ reg0[i].folder_name = mapping[j].folder_name
           /\ reg0[i].full_name # Get(mapping[j].info, "full_name", mapping[j].folder_name)

\* C9: every matched entry carries the profile's display name when its key
\* is registered, and the raw key, not NULL, as display name when it is not.
C9_MatchedEntryName ==
    \A i \in 1..Len(access_logs) :
        access_logs[i].matched = 1 =>
            IF Registered(access_logs[i].folder_name)
            THEN access_logs[i].full_name =
                     Val(get_employee(employees, access_logs[i].folder_name)).full_name
            ELSE /\ access_logs[i].full_name = access_logs[i].folder_name
                 /\ access_logs[i].full_name # None

\* C10: an entry has a NULL identity key iff it is unmatched; unmatched
\* entries are named "Unknown", matched entries have a key and a name.
C10_NullKeyIffUnmatched ==
    \A i \in 1..Len(access_logs) :
        /\ access_logs[i].folder_name = None <=> access_logs[i].matched = 0
        /\ access_logs[i].matched = 0 => access_logs[i].full_name = Some("Unknown")
        /\ access_logs[i].matched = 1 => access_logs[i].full_name # None

\* log_access of the current iteration has returned
EntryWritten == pc \in {"playsound", "draw", "imshow"} \/ shown

\* the distance the candidate of the current iteration carries
OriginalDistance == IF top # None THEN GetOrNone(Val(top), "distance") ELSE None

\* C11: a candidate without a distance is decided UNMATCHED whether or not
\* it carries a threshold; no exception ends the iteration, and its entry
\* has matched = 0 and a NULL distance.
C11_NoDistanceUnmatched ==
    (top # None /\ distance = None) =>
        /\ ~(pc = "crash" /\ exc = "TypeError")
        /\ matched # None => matched = Some(FALSE)
        /\ EntryWritten => /\ Last(access_logs).matched = 0
                           /\ Last(access_logs).distance = None

\* C12: the distance of the entry an iteration writes is the distance its
\* candidate carried, NULL when there is no candidate or no distance,
\* whether the decision was MATCHED or UNMATCHED.
C12_DistanceKept ==
    EntryWritten =>
        /\ Len(access_logs) = logged + 1
        /\ Last(access_logs).distance = OriginalDistance

\* C12 witness: an UNMATCHED decision whose entry carries the distance above
\* the threshold.
C12_Witness ==
    /\ EntryWritten /\ matched = Some(FALSE)
    /\ OriginalDistance = Some(FALLBACK_THRESHOLD + Step)
    /\ Last(access_logs).distance = Some(FALLBACK_THRESHOLD + Step)

\* a row of access_logs with every column of the table (lines 37-44)
CompleteRow(row) ==
    DOMAIN row = {"id", "folder_name", "full_name", "timestamp", "matched", "distance"}

\* C13: a log_access call either adds one complete entry to the committed
\* ledger, in one step, or leaves the committed ledger as it was: an inserted
\* row that is not committed exists only inside the call or after the
\* exception that ended main, and a failed call leaves the ledger unchanged.
C13_AppendAtomic ==
    /\ [](/\ Len(txn) <= 1
          /\ txn # <<>> => pc \in {"log_commit", "crash"}
          /\ \A i \in 1..Len(access_logs) :
                 CompleteRow(access_logs[i]) /\ access_logs[i].id = i
          /\ (pc = "crash" /\ exc = "sqlite3.Error") => Len(access_logs) = logged)
    /\ [][\/ access_logs' = access_logs
          \/ /\ pc = "log_commit" /\ Len(txn) = 1
             /\ CompleteRow(txn[1])
             /\ access_logs' = Append(access_logs, txn[1])
             /\ txn' = <<>>]_vars

\* C13 witness: conn.commit() raised after the INSERT; the row is in the
\* transaction and not in the ledger.
C13_Witness ==
    /\ pc = "crash" /\ exc = "sqlite3.Error"
    /\ Len(txn) = 1 /\ Len(access_logs) = logged

\* C14: timestamps never decrease in append order.
C14_TimestampsMonotonic ==
    \A i, j \in 1..Len(access_logs) :
        i < j => access_logs[i].timestamp <= access_logs[j].timestamp

\* C15: the registry is seeded before the first frame is read and no step
\* other than the seeding changes it: from the seeding on it holds the
\* profiles of person_data and nothing else, whatever the iterations did.
C15_RegistryReadOnly ==
    /\ [](pc \notin {"init_db", "seed"} =>
              employees = seed_employees(<<>>, person_data))
    /\ [][pc # "seed" => employees' = employees]_vars

\* C15 witness: an iteration that matched a key the registry does not hold
\* is complete, and the registry still does not hold the key.
C15_Witness ==
    /\ shown /\ matched = Some(TRUE)
    /\ person_name # None /\ ~Registered(person_name)
    /\ Last(access_logs).folder_name = person_name

\* C16: in an iteration the decision follows the candidate, the resolution
\* follows a MATCHED decision, the ledger write follows the decision, text
\* and sound follow the ledger write, and the next frame is read only after
\* the sound, the text and the display of the current one.
C16_StepOrder ==
    /\ matched # None => top # None
    /\ emp # None => matched = Some(TRUE)
    /\ call # None => (matched # None \/ top = None)
    /\ (overlay # "none" \/ cue # "none" \/ shown) => Len(access_logs) = logged + 1
    /\ pc = "read" => \/ NoLocals
                      \/ shown /\ cue # "none" /\ overlay # "none"

C18_CooperativeStop ==
    /\ [](pc \in {"teardown", "exit"} =>
              /\ txn = <<>>
              /\ \/ NoLocals
                 \/ /\ shown /\ cue # "none" /\ overlay # "none"
                    /\ Len(access_logs) = logged + 1)
    /\ [][(pc' = "teardown" /\ pc # "teardown") => pc \in {"read", "imshow"}]_vars
    /\ [][(pc \in {"teardown", "exit"}) =>
              (/\ access_logs' = access_logs /\ frames' = frames
               /\ pc' \in {"teardown", "exit", "init_db"})]_vars
    /\ [][(pc = "read" /\ frames' = frames) => pc' = "teardown"]_vars

\* C18 witness: the loop was left after a complete iteration while the
\* capture could still hand out frames.
C18_Witness ==
    /\ pc = "teardown" /\ shown /\ frames < MaxFrames
    /\ Len(access_logs) = logged + 1

\* the first record of the first result group, when the list has a first
\* group and that group is a table with records
FirstOfFirst(dl) ==
    IF dl # None /\ Val(dl) # <<>> /\ Val(dl)[1].kind = "DataFrame"
       /\ Val(dl)[1].rows # <<>>
    THEN Some(Head(Val(dl)[1].rows)) ELSE None

\* C19: safe_get_top_result always returns, and what it returns is the first
\* record of the first result group when there is one, and no candidate for
\* a null list, an empty list, an empty first group and a first group that
\* is not a table, whatever the later groups hold.
C19_TopIsFirstOfFirst ==
    /\ pc = "top" => ENABLED TopResult
    /\ pc \in {"decide", "no_candidate"} =>
           /\ exc = "none"
           /\ top = FirstOfFirst(df_list)
           /\ pc = "no_candidate" <=> top = None
           /\ (df_list = None \/ Val(df_list) = <<>>) => top = None
           /\ (df_list # None /\ Val(df_list) # <<>>
               /\ (Val(df_list)[1].kind # "DataFrame" \/ Val(df_list)[1].rows = <<>>))
                  => top = None

\* C19 witness: no candidate is returned although the second group holds a
\* record.
C19_Witness ==
    /\ pc = "no_candidate" /\ top = None
    /\ df_list # None /\ Len(Val(df_list)) = 2
    /\ Val(df_list)[2] = DataFrame(<<OtherRow>>)

====
